---- MODULE Spec2Model ----
(***************************************************************************)
(* A model of shell/browser/net/proxying_url_loader_factory.cc:           *)
(* ProxyingURLLoaderFactory and its per-request state machine             *)
(* InProgressRequest, together with the three parties it talks to: the    *)
(* issuer (target_client_ / proxied_loader_binding_), the transport       *)
(* (target_factory_ / target_loader_ / proxied_client_binding_) and the   *)
(* listener engine (web_request_api()).                                   *)
(*                                                                         *)
(* Every handler of the source is an operator from a world record (the    *)
(* value of all variables) to the world record after the handler has      *)
(* returned, including every handler it calls synchronously.  The results *)
(* of the listener hooks a handler may invoke are its inputs, passed in    *)
(* the record d.                                                           *)
(***************************************************************************)
EXTENDS Integers, Sequences, FiniteSets, TLC

VARIABLES
    requests_,                              \* web_request_id -> InProgressRequest
    network_request_id_to_web_request_id_,  \* transport request id -> web_request_id
    g_request_id,                           \* the last web_request_id handed out
    target_factory_,                        \* TRUE while target_factory_.is_bound()
    proxy_receivers_,                       \* number of receivers in proxy_receivers_
    url_loader_header_client_receiver_,     \* TRUE while that receiver is bound
    deleted,                                \* number of times `delete this` ran
    net,                                    \* the transport's loader of each request
    pending,                                \* continuations the listener engine holds
    issuer,                                 \* the issuer's end of each request
    trace,                                  \* what each request did in its current leg
    stats,                                  \* per request, over its whole life:
                                            \* OnComplete calls, legs, whether
                                            \* removed, whether a continuation ran
                                            \* late, times request_completed_
                                            \* went from false to true, whether
                                            \* a listener asks for extra headers,
                                            \* what ended the leg before,
                                            \* the transport requests made for
                                            \* it and not closed,
                                            \* the arguments of the leg's
                                            \* FollowRedirect as the issuer gave
                                            \* and as the transport got them,
                                            \* header edits of the leg's hook
    factory_out                             \* the call the factory handed elsewhere
                                            \* last

vars == <<requests_, network_request_id_to_web_request_id_, g_request_id,
          target_factory_, proxy_receivers_, url_loader_header_client_receiver_,
          deleted, net, pending, issuer, trace, stats, factory_out>>

----------------------------------------------------------------------------
\* Bounds of the model.
MaxRequests == 1      \* Spec, SpecHeaders: requests the issuer starts, one at a time
MaxLegs == 2          \* redirects are offered while a request ran fewer legs
NumHeaders == 1       \* request header names are 1..NumHeaders
MaxConcurrent == 2    \* SpecFactory: requests the issuer starts, live together
MaxReceivers == 2     \* SpecFactory: issuer-facing receivers of the factory
MaxNetId == 1         \* SpecFactory: transport request ids are 0..MaxNetId
MaxLoaderCalls == 1   \* SpecLoader: calls the issuer makes on a loader, per leg

kInternalRedirectStatusCode == 307

Ids == 1..(IF MaxRequests > MaxConcurrent THEN MaxRequests ELSE MaxConcurrent)
NetIds == 0..MaxNetId
HeaderNames == 1..NumHeaders

\* net error codes, by name
OK == "OK"
ERR_IO_PENDING == "ERR_IO_PENDING"
ERR_BLOCKED_BY_CLIENT == "ERR_BLOCKED_BY_CLIENT"
ERR_ABORTED == "ERR_ABORTED"
ERR_FAILED == "ERR_FAILED"

\* A header value, or Absent.
Absent == "-"
\* GURL(): the empty url.
NoUrl == ""

\* net::RedirectInfo, the fields the code reads.
RedirectInfo(status_code, new_method, new_url) ==
    [status_code |-> status_code, new_method |-> new_method, new_url |-> new_url]

NoInfo == RedirectInfo(0, "", NoUrl)

\* FollowRedirectParams; NoParams is the empty unique_ptr.
NoParams == [set |-> FALSE, removed_headers |-> {},
             modified_headers |-> [h \in HeaderNames |-> Absent], new_url |-> NoUrl]

\* HttpRequestHeaders::RemoveHeader for each name of a list.
RemoveHeaders(headers, removed) ==
    [h \in DOMAIN headers |-> IF h \in removed THEN Absent ELSE headers[h]]

\* HttpRequestHeaders::MergeFrom: every header of `other` replaces or adds.
MergeFrom(headers, other) ==
    [h \in DOMAIN headers |-> IF other[h] # Absent THEN other[h] ELSE headers[h]]

\* The world record: the value of every variable.
World ==
    [requests_ |-> requests_,
     table |-> network_request_id_to_web_request_id_,
     g_request_id |-> g_request_id,
     target_factory_ |-> target_factory_,
     proxy_receivers_ |-> proxy_receivers_,
     header_client |-> url_loader_header_client_receiver_,
     deleted |-> deleted,
     net |-> net,
     pending |-> pending,
     issuer |-> issuer,
     trace |-> trace,
     stats |-> stats,
     factory_out |-> factory_out]

Live(w, id) == id \in DOMAIN w.requests_

----------------------------------------------------------------------------
\* The observable events of a request, kept for its current leg: a listener hook
\* invoked ("hook"), the decision of a hook resolved ("decide"), a message the
\* issuer received ("issuer"), a call to the transport ("net"), a message taken
\* off a pipe ("recv").  n is the hook or message, val the url or headers it
\* carries, code its net error code, status its status code or flag.
Ev(k, n, val, code, status) ==
    [k |-> k, n |-> n, val |-> val, code |-> code, status |-> status]

Log(w, id, e) == [w EXCEPT !.trace[id] = Append(@, e)]

\* A listener hook is invoked.
Hook(w, id, name) == Log(w, id, Ev("hook", name, NoUrl, "", 0))

\* The decision of a listener hook resolves with the code and the url or headers
\* the hook wrote: synchronously (async = 0) or by its continuation (async = 1).
Decide(w, id, name, code, val, async) ==
    Log(w, id, Ev("decide", name, val, code, async))

\* A call on target_client_: a message to the issuer, which receives it while its
\* end of the pipe is connected.  stats[id].completes counts the calls of
\* target_client_->OnComplete.
IssuerSend(w, id, name, val, code, status) ==
    LET w0 == [w EXCEPT !.stats[id].completes =
                            IF name = "OnComplete" THEN @ + 1 ELSE @]
    IN IF w.issuer[id].connected
       THEN [Log(w0, id, Ev("issuer", name, val, code, status))
                EXCEPT !.issuer[id].awaiting =
                           IF name = "OnReceiveRedirect" THEN TRUE ELSE @]
       ELSE w0

\* A call on target_loader_ or target_factory_ for this request.
NetCall(w, id, name, code) == Log(w, id, Ev("net", name, NoUrl, code, 0))

\* target_factory_->CreateLoaderAndStart for this request: val is the method of
\* the request it carries, status 1 when that request has a body.
NetStart(w, id, request) ==
    Log([w EXCEPT !.stats[id].outstanding = @ + 1], id, Ev("net", "CreateLoaderAndStart", request.method, "",
                  IF request.request_body THEN 1 ELSE 0))

\* A callback of the trusted-header channel is run: the answer the transport
\* gets to its OnBeforeSendHeaders or OnHeadersReceived, with the headers it
\* carries, "nullopt" when it carries none.
Reply(w, id, name, code, headers) == Log(w, id, Ev("reply", name, headers, code, 0))

\* A transport message arrives at proxied_client_binding_ (or the issuer's pipe
\* reports its disconnect) and its handler starts to run.
Recv(w, id, name, code) == Log(w, id, Ev("recv", name, NoUrl, code, 0))

\* network::ResourceRequest, the fields the code reads or writes.
ResourceRequest(url, method, headers, request_body) ==
    [url |-> url, method |-> method, headers |-> headers,
     request_body |-> request_body]

NoRequest == ResourceRequest(NoUrl, "", [h \in HeaderNames |-> Absent], FALSE)

\* The transport's loader of a request that has none.
NoLoader == [stage |-> "none", queue |-> <<>>, request |-> NoRequest]

\* A mojo binding: bound or not, and whether incoming calls are paused.
Unbound == [bound |-> FALSE, paused |-> FALSE]
Bound == [bound |-> TRUE, paused |-> FALSE]
PauseIncomingMethodCallProcessing(b) == [b EXCEPT !.paused = TRUE]
ResumeIncomingMethodCallProcessing(b) == [b EXCEPT !.paused = FALSE]
PauseIfBound(b) == IF b.bound THEN PauseIncomingMethodCallProcessing(b) ELSE b
ResumeIfBound(b) == IF b.bound THEN ResumeIncomingMethodCallProcessing(b) ELSE b

\* Response headers, by where they come from: none, the transport's main event,
\* the fabricated internal redirect, or headers a headers-received hook supplied:
\* a non-redirect status, a redirect status with a Location, or a redirect status
\* without one.
NullHeaders == "null"
OverrideKinds == {"plain", "redirect", "redirect_no_location"}

\* HttpResponseHeaders::IsRedirect: a redirect status and a Location header.
IsRedirect(headers) == headers = "redirect"

\* HttpResponseHeaders::response_code of override headers.
ResponseCode(headers) == IF headers = "plain" THEN 200 ELSE 302

\* The InProgressRequest constructor.
InProgressRequest(network_service_request_id, request) ==
    [request_ |-> request,
     network_service_request_id_ |-> network_service_request_id,
     current_request_uses_header_client_ |-> FALSE,
     has_any_extra_headers_listeners_ |-> FALSE,
     request_completed_ |-> FALSE,
     redirect_url_ |-> NoUrl,
     override_headers_ |-> NullHeaders,
     current_response_ |-> NullHeaders,
     pending_follow_redirect_params_ |-> NoParams,
     target_loader_ |-> FALSE,
     proxied_client_binding_ |-> Unbound,
     header_client_receiver_ |-> Unbound,
     on_before_send_headers_callback_ |-> FALSE,
     on_headers_received_callback_ |-> FALSE]

\* The listener engine keeps a continuation of request id: the handler it is
\* bound to (through a weak pointer to the request), the hook it answers, and
\* the redirect info bound into it; n tells it from the continuations it
\* already keeps that are bound to the same.
Park(w, id, cont, hook, info) ==
    LET same == {c \in w.pending[id] :
                   c.cont = cont /\ c.hook = hook /\ c.info = info}
        n == CHOOSE k \in 0..Cardinality(same) :
                /\ \A c \in same : c.n # k
                /\ \A j \in 0..(k - 1) : \E c \in same : c.n = j
    IN [w EXCEPT !.pending[id] =
           @ \cup {[cont |-> cont, hook |-> hook, info |-> info, n |-> n]}]

----------------------------------------------------------------------------
\* ProxyingURLLoaderFactory: teardown.

\* A MaybeDeleteThis that looks at the transport-facing channel alone.
MaybeDeleteThis_IgnoresRequests(w) ==
    IF w.target_factory_
    THEN w
    ELSE [w EXCEPT !.deleted = @ + 1]

\* ProxyingURLLoaderFactory::MaybeDeleteThis
MaybeDeleteThis(w) ==
    IF w.target_factory_ \/ DOMAIN w.requests_ # {}
    THEN w
    ELSE [w EXCEPT !.deleted = @ + 1]

\* A RemoveRequest that leaves the correlation table as it is.
RemoveRequest_KeepsEntry(w, network_service_request_id, request_id) ==
    LET w1 == [w EXCEPT
                 !.requests_ = [k \in DOMAIN @ \ {request_id} |-> @[k]],
                 !.net[request_id] = NoLoader,
                 !.issuer[request_id] = [connected |-> FALSE, awaiting |-> FALSE],
                 !.stats[request_id].removed = TRUE,
                 !.stats[request_id].outstanding = 0]
    IN MaybeDeleteThis(w1)

\* ProxyingURLLoaderFactory::RemoveRequest.  Erasing the request destroys it:
\* its pipes to the issuer and to the transport close.
RemoveRequest(w, network_service_request_id, request_id) ==
    LET w1 == [w EXCEPT
                 !.table = [k \in DOMAIN @ \ {network_service_request_id} |-> @[k]],
                 !.requests_ = [k \in DOMAIN @ \ {request_id} |-> @[k]],
                 !.net[request_id] = NoLoader,
                 !.issuer[request_id] = [connected |-> FALSE, awaiting |-> FALSE],
                 !.stats[request_id].removed = TRUE,
                 !.stats[request_id].outstanding = 0]
    IN MaybeDeleteThis(w1)

----------------------------------------------------------------------------
\* InProgressRequest.

\* An OnRequestError that delivers the error and leaves the request registered.
OnRequestError_KeepsRequest(w, id, error_code) ==
    IF ~w.requests_[id].request_completed_
    THEN Hook(IssuerSend(w, id, "OnComplete", NoUrl, error_code, 0),
              id, "OnErrorOccurred")
    ELSE w

\* An OnRequestError that does not tell the listener engine.
OnRequestError_NoNotify(w, id, error_code) ==
    LET r == w.requests_[id]
        w1 == IF ~r.request_completed_
              THEN IssuerSend(w, id, "OnComplete", NoUrl, error_code, 0)
              ELSE w
    IN RemoveRequest(w1, r.network_service_request_id_, id)

\* InProgressRequest::OnRequestError
OnRequestError(w, id, error_code) ==
    LET r == w.requests_[id]
        w1 == IF ~r.request_completed_
              THEN Hook(IssuerSend(w, id, "OnComplete", NoUrl, error_code, 0),
                        id, "OnErrorOccurred")
              ELSE w
    IN RemoveRequest(w1, r.network_service_request_id_, id)

\* An OnComplete that, on success, tells the issuer and the listeners and leaves
\* the request registered.
OnComplete_KeepsRequest(w, id, error_code) ==
    LET r == w.requests_[id]
        w0 == Recv(w, id, "OnComplete", error_code)
    IN IF error_code # OK
       THEN OnRequestError(w0, id, error_code)
       ELSE Hook(IssuerSend(w0, id, "OnComplete", NoUrl, error_code, 0),
                 id, "OnCompleted")

\* InProgressRequest::OnComplete
OnComplete(w, id, error_code) ==
    LET r == w.requests_[id]
        w0 == Recv(w, id, "OnComplete", error_code)
    IN IF error_code # OK
       THEN OnRequestError(w0, id, error_code)
       ELSE RemoveRequest(
                Hook(IssuerSend(w0, id, "OnComplete", NoUrl, error_code, 0),
                     id, "OnCompleted"),
                r.network_service_request_id_, id)

\* InProgressRequest::OnUploadProgress, OnReceiveCachedMetadata,
\* OnTransferSizeUpdated, OnStartLoadingResponseBody: forwarded as they are.
OnStartLoadingResponseBody(w, id) ==
    IssuerSend(Recv(w, id, "OnStartLoadingResponseBody", ""), id,
               "OnStartLoadingResponseBody", NoUrl, "", 0)

\* InProgressRequest::UpdateRequestInfo
UpdateRequestInfo(w, id) ==
    [w EXCEPT !.requests_[id].current_request_uses_header_client_ =
        w.header_client
        /\ w.requests_[id].network_service_request_id_ # 0
        /\ FALSE]

\* A ContinueToBeforeRedirect that leaves proxied_client_binding_ as it is.
ContinueToBeforeRedirect_NoResume(w, id, redirect_info, error_code) ==
    IF error_code # OK
    THEN OnRequestError(w, id, error_code)
    ELSE
    LET r == w.requests_[id]
        w2 == Hook(w, id, "OnBeforeRedirect")
        w3 == IssuerSend(w2, id, "OnReceiveRedirect", redirect_info.new_url,
                         "", redirect_info.status_code)
    IN [w3 EXCEPT
          !.requests_[id].current_response_ = NullHeaders,
          !.requests_[id].request_.url = redirect_info.new_url,
          !.requests_[id].request_.method = redirect_info.new_method,
          !.requests_[id].request_.request_body =
              IF redirect_info.new_method = "GET" THEN FALSE ELSE @,
          !.requests_[id].request_completed_ = TRUE,
          !.stats[id].rises = IF r.request_completed_ THEN @ ELSE @ + 1]

\* A ContinueToBeforeRedirect that keeps the request body whatever the method.
ContinueToBeforeRedirect_KeepsBody(w, id, redirect_info, error_code) ==
    IF error_code # OK
    THEN OnRequestError(w, id, error_code)
    ELSE
    LET w1 == [w EXCEPT !.requests_[id].proxied_client_binding_ = ResumeIfBound(@)]
        w2 == Hook(w1, id, "OnBeforeRedirect")
        w3 == IssuerSend(w2, id, "OnReceiveRedirect", redirect_info.new_url,
                         "", redirect_info.status_code)
    IN [w3 EXCEPT
          !.requests_[id].current_response_ = NullHeaders,
          !.requests_[id].request_.url = redirect_info.new_url,
          !.requests_[id].request_.method = redirect_info.new_method,
          !.requests_[id].request_completed_ = TRUE,
          !.stats[id].rises = IF w.requests_[id].request_completed_ THEN @ ELSE @ + 1]

\* InProgressRequest::ContinueToBeforeRedirect
ContinueToBeforeRedirect(w, id, redirect_info, error_code) ==
    IF error_code # OK
    THEN OnRequestError(w, id, error_code)
    ELSE
    LET r == w.requests_[id]
        w1 == [w EXCEPT !.requests_[id].proxied_client_binding_ = ResumeIfBound(@)]
        w2 == Hook(w1, id, "OnBeforeRedirect")
        w3 == IssuerSend(w2, id, "OnReceiveRedirect", redirect_info.new_url,
                         "", redirect_info.status_code)
    IN [w3 EXCEPT
          !.requests_[id].current_response_ = NullHeaders,
          !.requests_[id].request_.url = redirect_info.new_url,
          !.requests_[id].request_.method = redirect_info.new_method,
          !.requests_[id].request_.request_body =
              IF redirect_info.new_method = "GET" THEN FALSE ELSE @,
          !.requests_[id].request_completed_ = TRUE,
          !.stats[id].rises = IF r.request_completed_ THEN @ ELSE @ + 1]

\* The connection with the current URLLoader is closed: proxied_client_binding_
\* .Close(), header_client_receiver_.reset(), target_loader_.reset().  The
\* transport's loader goes with its pipe, and so does what it had queued.
CloseLoader(w, id) ==
    LET w1 == [w EXCEPT
                 !.requests_[id].proxied_client_binding_ = Unbound,
                 !.requests_[id].header_client_receiver_ = Unbound,
                 !.requests_[id].target_loader_ = FALSE,
                 !.stats[id].outstanding =
                     IF w.requests_[id].target_loader_ THEN @ - 1 ELSE @,
                 !.net[id] = NoLoader]
    IN NetCall(w1, id, "Close",
               IF w.requests_[id].target_loader_ THEN "bound" ELSE "unbound")

\* A HandleBeforeRequestRedirect that leaves the current URLLoader connected.
HandleBeforeRequestRedirect_KeepsLoader(w, id) ==
    LET r == w.requests_[id]
        redirect_info == RedirectInfo(kInternalRedirectStatusCode,
                                      r.request_.method, r.redirect_url_)
        w2 == [w EXCEPT !.requests_[id].current_response_ = "internal"]
    IN ContinueToBeforeRedirect(w2, id, redirect_info, OK)

\* InProgressRequest::HandleBeforeRequestRedirect
HandleBeforeRequestRedirect(w, id) ==
    LET r == w.requests_[id]
        redirect_info == RedirectInfo(kInternalRedirectStatusCode,
                                      r.request_.method, r.redirect_url_)
        w1 == CloseLoader(w, id)
        w2 == [w1 EXCEPT !.requests_[id].current_response_ = "internal"]
    IN ContinueToBeforeRedirect(w2, id, redirect_info, OK)

\* A ContinueToStartRequest that makes a transport request whether or not
\* target_loader_ is bound.
ContinueToStartRequest_AlwaysCreates(w, id, error_code) ==
    IF error_code # OK
    THEN OnRequestError(w, id, error_code)
    ELSE
    LET r == w.requests_[id] IN
    IF r.current_request_uses_header_client_ /\ r.redirect_url_ # NoUrl
    THEN HandleBeforeRequestRedirect(w, id)
    ELSE
    LET w1 == [w EXCEPT
                 !.requests_[id].proxied_client_binding_ = ResumeIfBound(@),
                 !.requests_[id].header_client_receiver_ = ResumeIfBound(@)]
    IN IF w.target_factory_
       THEN NetStart([w1 EXCEPT
                        !.requests_[id].proxied_client_binding_ = Bound,
                        !.requests_[id].target_loader_ = TRUE,
                        !.net[id] = [stage |-> "started", queue |-> <<>>,
                                     request |-> r.request_]],
                     id, r.request_)
       ELSE w1

\* InProgressRequest::ContinueToStartRequest
ContinueToStartRequest(w, id, error_code) ==
    IF error_code # OK
    THEN OnRequestError(w, id, error_code)
    ELSE
    LET r == w.requests_[id] IN
    IF r.current_request_uses_header_client_ /\ r.redirect_url_ # NoUrl
    THEN HandleBeforeRequestRedirect(w, id)
    ELSE
    LET w1 == [w EXCEPT
                 !.requests_[id].proxied_client_binding_ = ResumeIfBound(@),
                 !.requests_[id].header_client_receiver_ = ResumeIfBound(@)]
    IN IF ~r.target_loader_ /\ w.target_factory_
       THEN NetStart([w1 EXCEPT
                        !.requests_[id].proxied_client_binding_ = Bound,
                        !.requests_[id].target_loader_ = TRUE,
                        !.net[id] = [stage |-> "started", queue |-> <<>>,
                                     request |-> r.request_]],
                     id, r.request_)
       ELSE w1

\* URLLoader::FollowRedirect as the transport applies it to its own request:
\* the removals, then the additions.
TransportFollowRedirect(w, id, removed_headers, modified_headers) ==
    NetCall([w EXCEPT
               !.stats[id].follow.sent =
                   [set |-> TRUE, removed_headers |-> removed_headers,
                    modified_headers |-> modified_headers, new_url |-> NoUrl],
               !.net[id].request.headers =
                   MergeFrom(RemoveHeaders(@, removed_headers), modified_headers),
               !.net[id].stage = IF @ = "redirected" THEN "started" ELSE @],
            id, "FollowRedirect", "")

\* InProgressRequest::ContinueToSendHeaders
ContinueToSendHeaders(w, id, removed_headers, set_headers, error_code) ==
    IF error_code # OK
    THEN OnRequestError(w, id, error_code)
    ELSE
    LET r == w.requests_[id]
        p == r.pending_follow_redirect_params_
        merged == [p EXCEPT
                     !.removed_headers = @ \cup removed_headers,
                     !.modified_headers =
                         [h \in HeaderNames |->
                            IF h \in set_headers /\ r.request_.headers[h] # Absent
                            THEN r.request_.headers[h] ELSE @[h]]]
        w1 == IF r.current_request_uses_header_client_
              THEN [w EXCEPT !.requests_[id].on_before_send_headers_callback_ = FALSE]
              ELSE IF p.set
              THEN LET w0 == IF r.target_loader_
                             THEN TransportFollowRedirect(w, id,
                                      merged.removed_headers, merged.modified_headers)
                             ELSE w
                   IN [w0 EXCEPT !.requests_[id].pending_follow_redirect_params_ =
                                     NoParams]
              ELSE w
        w2 == [w1 EXCEPT !.requests_[id].proxied_client_binding_ = ResumeIfBound(@)]
        w3 == Hook(w2, id, "OnSendHeaders")
    IN IF ~r.current_request_uses_header_client_
       THEN ContinueToStartRequest(w3, id, OK)
       ELSE w3

\* A ContinueToBeforeSendHeaders that does not look at error_code.
ContinueToBeforeSendHeaders_IgnoresError(w, id, error_code, d) ==
    LET r == w.requests_[id] IN
    IF ~r.current_request_uses_header_client_ /\ r.redirect_url_ # NoUrl
    THEN HandleBeforeRequestRedirect(w, id)
    ELSE
    LET w1 == [w EXCEPT !.requests_[id].proxied_client_binding_ = ResumeIfBound(@)]
        w2 == Hook(w1, id, "OnBeforeSendHeaders")
    IN CASE d.bsh = ERR_BLOCKED_BY_CLIENT ->
              OnRequestError(Decide(w2, id, "OnBeforeSendHeaders", d.bsh, "", 0),
                             id, d.bsh)
         [] d.bsh = ERR_IO_PENDING ->
              Park([w2 EXCEPT !.requests_[id].proxied_client_binding_ =
                                  PauseIfBound(@)],
                   id, "ContinueToSendHeaders", "OnBeforeSendHeaders", NoInfo)
         [] OTHER ->
              ContinueToSendHeaders(
                  Decide(w2, id, "OnBeforeSendHeaders", OK, "", 0), id, {}, {}, OK)

\* InProgressRequest::ContinueToBeforeSendHeaders.  d.bsh is what the
\* before-send-headers hook returns.
ContinueToBeforeSendHeaders(w, id, error_code, d) ==
    IF error_code # OK
    THEN OnRequestError(w, id, error_code)
    ELSE
    LET r == w.requests_[id] IN
    IF ~r.current_request_uses_header_client_ /\ r.redirect_url_ # NoUrl
    THEN HandleBeforeRequestRedirect(w, id)
    ELSE
    LET w1 == [w EXCEPT !.requests_[id].proxied_client_binding_ = ResumeIfBound(@)]
        w2 == Hook(w1, id, "OnBeforeSendHeaders")
    IN CASE d.bsh = ERR_BLOCKED_BY_CLIENT ->
              OnRequestError(Decide(w2, id, "OnBeforeSendHeaders", d.bsh, "", 0),
                             id, d.bsh)
         [] d.bsh = ERR_IO_PENDING ->
              Park([w2 EXCEPT !.requests_[id].proxied_client_binding_ =
                                  PauseIfBound(@)],
                   id, "ContinueToSendHeaders", "OnBeforeSendHeaders", NoInfo)
         [] OTHER ->
              ContinueToSendHeaders(
                  Decide(w2, id, "OnBeforeSendHeaders", OK, "", 0), id, {}, {}, OK)

\* What ended the leg whose trace is t: a redirect the headers-received hook
\* made of a response ("override"), a redirect of the before-request hook
\* ("before_request"), both of which closed the loader, or a redirect of the
\* transport ("transport"); "" when there was no leg before.
LegEnd(t) ==
    IF \E i \in 1..Len(t) : t[i].k = "net" /\ t[i].n = "Close"
    THEN IF \E i \in 1..Len(t) : t[i].k = "decide" /\ t[i].n = "OnHeadersReceived"
         THEN "override" ELSE "before_request"
    ELSE IF t = <<>> THEN "" ELSE "transport"

\* A RestartInternal that leaves request_completed_ as it is.
RestartInternal_KeepsCompleted(w, id, d) ==
    LET r == w.requests_[id]
        w0 == [w EXCEPT !.requests_[id].redirect_url_ = NoUrl,
                        !.trace[id] = <<>>,
                        !.stats[id].legs = @ + 1,
                        !.stats[id].after = LegEnd(w.trace[id]),
                        !.stats[id].bsh = [removed |-> {}, set |-> {}]]
        w1 == Hook(w0, id, "OnBeforeRequest")
    IN CASE d.br = ERR_BLOCKED_BY_CLIENT ->
              OnRequestError(Decide(w1, id, "OnBeforeRequest", d.br, NoUrl, 0), id,
                             d.br)
         [] d.br = ERR_IO_PENDING ->
              Park([w1 EXCEPT
                      !.requests_[id].proxied_client_binding_ = PauseIfBound(@),
                      !.requests_[id].header_client_receiver_ = PauseIfBound(@)],
                   id, "ContinueToBeforeSendHeaders", "OnBeforeRequest", NoInfo)
         [] OTHER ->
              ContinueToBeforeSendHeaders(
                  Decide([w1 EXCEPT !.requests_[id].redirect_url_ = d.url],
                         id, "OnBeforeRequest", OK, d.url, 0),
                  id, OK, d)

\* InProgressRequest::RestartInternal.  d.br is what the before-request hook
\* returns and d.url the redirect url it writes when it returns OK.
RestartInternal(w, id, d) ==
    LET r == w.requests_[id]
        w0 == [w EXCEPT !.requests_[id].request_completed_ = FALSE,
                        !.requests_[id].redirect_url_ = NoUrl,
                        !.trace[id] = <<>>,
                        !.stats[id].legs = @ + 1,
                        !.stats[id].after = LegEnd(w.trace[id]),
                        !.stats[id].bsh = [removed |-> {}, set |-> {}]]
        w1 == Hook(w0, id, "OnBeforeRequest")
    IN CASE d.br = ERR_BLOCKED_BY_CLIENT ->
              OnRequestError(Decide(w1, id, "OnBeforeRequest", d.br, NoUrl, 0), id,
                             d.br)
         [] d.br = ERR_IO_PENDING ->
              Park([w1 EXCEPT
                      !.requests_[id].proxied_client_binding_ = PauseIfBound(@),
                      !.requests_[id].header_client_receiver_ = PauseIfBound(@)],
                   id,
                   IF r.current_request_uses_header_client_
                   THEN "ContinueToStartRequest" ELSE "ContinueToBeforeSendHeaders",
                   "OnBeforeRequest", NoInfo)
         [] OTHER ->
              LET w2 == Decide([w1 EXCEPT !.requests_[id].redirect_url_ = d.url],
                               id, "OnBeforeRequest", OK, d.url, 0)
              IN IF r.current_request_uses_header_client_
                 THEN ContinueToStartRequest(w2, id, OK)
                 ELSE ContinueToBeforeSendHeaders(w2, id, OK, d)

\* InProgressRequest::Restart
Restart(w, id, d) == RestartInternal(UpdateRequestInfo(w, id), id, d)

\* A FollowRedirect that goes on to the before-send-headers hook without
\* restarting the request.
FollowRedirect_SkipsBeforeRequest(w, id, removed_headers, modified_headers, new_url, d) ==
    LET r == w.requests_[id]
        w1 == [w EXCEPT
                 !.issuer[id].awaiting = FALSE,
                 !.requests_[id].request_.headers =
                     MergeFrom(RemoveHeaders(@, removed_headers), modified_headers),
                 !.requests_[id].request_completed_ = FALSE,
                 !.requests_[id].redirect_url_ = NoUrl,
                 !.stats[id].legs = @ + 1]
        w3 == IF r.target_loader_
              THEN [w1 EXCEPT !.requests_[id].pending_follow_redirect_params_ =
                       [set |-> TRUE, removed_headers |-> removed_headers,
                        modified_headers |-> modified_headers,
                        new_url |-> new_url]]
              ELSE w1
    IN ContinueToBeforeSendHeaders(w3, id, OK, d)

\* A FollowRedirect that calls target_loader_->FollowRedirect at once, before
\* the hooks of the leg.
FollowRedirect_CallsAtOnce(w, id, removed_headers, modified_headers, new_url, d) ==
    LET r == w.requests_[id]
        w1 == [w EXCEPT
                 !.issuer[id].awaiting = FALSE,
                 !.stats[id].follow =
                     [asked |-> [set |-> TRUE, removed_headers |-> removed_headers,
                                 modified_headers |-> modified_headers,
                                 new_url |-> new_url],
                      sent |-> NoParams],
                 !.requests_[id].request_.url = IF new_url # NoUrl THEN new_url ELSE @,
                 !.requests_[id].request_.headers =
                     MergeFrom(RemoveHeaders(@, removed_headers), modified_headers)]
        w2 == UpdateRequestInfo(w1, id)
        w3 == IF r.target_loader_
              THEN TransportFollowRedirect(w2, id, removed_headers, modified_headers)
              ELSE w2
    IN RestartInternal(w3, id, d)

\* InProgressRequest::FollowRedirect
FollowRedirect(w, id, removed_headers, modified_headers, new_url, d) ==
    LET r == w.requests_[id]
        w1 == [w EXCEPT
                 !.issuer[id].awaiting = FALSE,
                 !.stats[id].follow =
                     [asked |-> [set |-> TRUE, removed_headers |-> removed_headers,
                                 modified_headers |-> modified_headers,
                                 new_url |-> new_url],
                      sent |-> NoParams],
                 !.requests_[id].request_.url = IF new_url # NoUrl THEN new_url ELSE @,
                 !.requests_[id].request_.headers =
                     MergeFrom(RemoveHeaders(@, removed_headers), modified_headers)]
        w2 == UpdateRequestInfo(w1, id)
        uses == w2.requests_[id].current_request_uses_header_client_
        w3 == IF r.target_loader_
              THEN IF uses
                   THEN TransportFollowRedirect(w2, id, removed_headers,
                                                modified_headers)
                   ELSE [w2 EXCEPT !.requests_[id].pending_follow_redirect_params_ =
                            [set |-> TRUE, removed_headers |-> removed_headers,
                             modified_headers |-> modified_headers,
                             new_url |-> new_url]]
              ELSE w2
    IN RestartInternal(w3, id, d)

\* A ContinueToResponseStarted that forwards override headers as a response
\* whatever their status.
ContinueToResponseStarted_ForwardsRedirect(w, id, error_code) ==
    IF error_code # OK
    THEN OnRequestError(w, id, error_code)
    ELSE
    LET r == w.requests_[id]
        w1 == IF r.override_headers_ # NullHeaders
              THEN [w EXCEPT !.requests_[id].current_response_ = r.override_headers_]
              ELSE w
        w2 == [w1 EXCEPT !.requests_[id].proxied_client_binding_ =
                             ResumeIncomingMethodCallProcessing(@)]
        w3 == Hook(w2, id, "OnResponseStarted")
        w4 == IssuerSend(w3, id, "OnReceiveResponse",
                         w3.requests_[id].current_response_, "", 0)
    IN [w4 EXCEPT !.requests_[id].current_response_ = NullHeaders]

\* InProgressRequest::ContinueToResponseStarted
ContinueToResponseStarted(w, id, error_code) ==
    IF error_code # OK
    THEN OnRequestError(w, id, error_code)
    ELSE
    LET r == w.requests_[id]
        w1 == IF r.override_headers_ # NullHeaders
              THEN [w EXCEPT !.requests_[id].current_response_ = r.override_headers_]
              ELSE w
    IN IF r.override_headers_ # NullHeaders /\ IsRedirect(r.override_headers_)
       THEN ContinueToBeforeRedirect(
                CloseLoader(w1, id), id,
                RedirectInfo(ResponseCode(r.override_headers_), r.request_.method,
                             "locU"),
                OK)
       ELSE LET w2 == [w1 EXCEPT !.requests_[id].proxied_client_binding_ =
                                     ResumeIncomingMethodCallProcessing(@)]
                w3 == Hook(w2, id, "OnResponseStarted")
                w4 == IssuerSend(w3, id, "OnReceiveResponse",
                                 w3.requests_[id].current_response_, "", 0)
            IN [w4 EXCEPT !.requests_[id].current_response_ = NullHeaders]

\* InProgressRequest::ContinueToHandleOverrideHeaders
ContinueToHandleOverrideHeaders(w, id, error_code) ==
    IF error_code # OK
    THEN OnRequestError(w, id, error_code)
    ELSE
    LET r == w.requests_[id]
    IN [w EXCEPT
          !.requests_[id].current_response_ =
              IF r.override_headers_ # NullHeaders
                 /\ r.current_request_uses_header_client_
              THEN r.override_headers_ ELSE @,
          !.requests_[id].on_headers_received_callback_ = FALSE,
          !.requests_[id].override_headers_ = NullHeaders,
          !.requests_[id].proxied_client_binding_ = ResumeIfBound(@)]

\* A continuation runs: the handler it was bound to, with the arguments bound
\* into it.
RunContinuation(w, id, c, error_code, d) ==
    CASE c.cont = "ContinueToBeforeSendHeaders" ->
            ContinueToBeforeSendHeaders(w, id, error_code, d)
      [] c.cont = "ContinueToStartRequest" ->
            ContinueToStartRequest(w, id, error_code)
      [] c.cont = "ContinueToResponseStarted" ->
            ContinueToResponseStarted(w, id, error_code)
      [] c.cont = "ContinueToBeforeRedirect" ->
            ContinueToBeforeRedirect(w, id, c.info, error_code)
      [] c.cont = "ContinueToHandleOverrideHeaders" ->
            ContinueToHandleOverrideHeaders(w, id, error_code)
      [] OTHER -> w

\* A HandleResponseOrRedirectHeaders that leaves proxied_client_binding_ running
\* while the headers-received hook is pending.
HandleResponseOrRedirectHeaders_NoPause(w, id, continuation, d) ==
    LET w0 == [w EXCEPT !.requests_[id].override_headers_ = NullHeaders,
                        !.requests_[id].redirect_url_ = NoUrl]
        w1 == Hook(w0, id, "OnHeadersReceived")
    IN CASE d.hr = ERR_BLOCKED_BY_CLIENT ->
              OnRequestError(Decide(w1, id, "OnHeadersReceived", d.hr, "", 0),
                             id, d.hr)
         [] d.hr = ERR_IO_PENDING ->
              Park(w1, id, continuation.cont, "OnHeadersReceived",
                   continuation.info)
         [] OTHER ->
              RunContinuation(
                  Decide([w1 EXCEPT !.requests_[id].override_headers_ = d.override],
                         id, "OnHeadersReceived", OK, d.override, 0),
                  id, continuation, OK, d)

\* InProgressRequest::HandleResponseOrRedirectHeaders.  d.hr is what the
\* headers-received hook returns and d.override the headers it supplies when it
\* returns OK.
HandleResponseOrRedirectHeaders(w, id, continuation, d) ==
    LET w0 == [w EXCEPT !.requests_[id].override_headers_ = NullHeaders,
                        !.requests_[id].redirect_url_ = NoUrl]
        w1 == Hook(w0, id, "OnHeadersReceived")
    IN CASE d.hr = ERR_BLOCKED_BY_CLIENT ->
              OnRequestError(Decide(w1, id, "OnHeadersReceived", d.hr, "", 0),
                             id, d.hr)
         [] d.hr = ERR_IO_PENDING ->
              Park([w1 EXCEPT !.requests_[id].proxied_client_binding_ =
                                  PauseIncomingMethodCallProcessing(@)],
                   id, continuation.cont, "OnHeadersReceived", continuation.info)
         [] OTHER ->
              RunContinuation(
                  Decide([w1 EXCEPT !.requests_[id].override_headers_ = d.override],
                         id, "OnHeadersReceived", OK, d.override, 0),
                  id, continuation, OK, d)

\* InProgressRequest::OnLoaderCreated
OnLoaderCreated(w, id) ==
    [w EXCEPT !.requests_[id].header_client_receiver_ = Bound]

\* InProgressRequest::OnBeforeSendHeaders, the trusted-header channel's.
OnBeforeSendHeaders(w, id, headers, d) ==
    IF ~w.requests_[id].current_request_uses_header_client_
    THEN Reply(w, id, "OnBeforeSendHeaders", OK, "nullopt")
    ELSE ContinueToBeforeSendHeaders(
             [w EXCEPT !.requests_[id].request_.headers = headers,
                       !.requests_[id].on_before_send_headers_callback_ = TRUE],
             id, OK, d)

\* InProgressRequest::OnHeadersReceived, the trusted-header channel's.
OnHeadersReceived(w, id, headers, d) ==
    IF ~w.requests_[id].current_request_uses_header_client_
    THEN Reply(w, id, "OnHeadersReceived", OK, "nullopt")
    ELSE HandleResponseOrRedirectHeaders(
             [w EXCEPT !.requests_[id].on_headers_received_callback_ = TRUE,
                       !.requests_[id].current_response_ = headers],
             id, [cont |-> "ContinueToHandleOverrideHeaders", info |-> NoInfo], d)

\* InProgressRequest::SetPriority, PauseReadingBodyFromNet,
\* ResumeReadingBodyFromNet: each calls the same method of target_loader_ when
\* that is bound.
ForwardToLoader(w, id, name) ==
    IF w.requests_[id].target_loader_ THEN NetCall(w, id, name, "") ELSE w

SetPriority(w, id) == ForwardToLoader(w, id, "SetPriority")

PauseReadingBodyFromNet(w, id) == ForwardToLoader(w, id, "PauseReadingBodyFromNet")

ResumeReadingBodyFromNet(w, id) ==
    ForwardToLoader(w, id, "ResumeReadingBodyFromNet")

\* InProgressRequest::OnReceiveResponse
OnReceiveResponse(w, id, d) ==
    LET r == w.requests_[id]
        w0 == Recv(w, id, "OnReceiveResponse", "")
    IN IF r.current_request_uses_header_client_
       THEN ContinueToResponseStarted(w0, id, OK)
       ELSE HandleResponseOrRedirectHeaders(
                [w0 EXCEPT !.requests_[id].current_response_ = "net"], id,
                [cont |-> "ContinueToResponseStarted", info |-> NoInfo], d)

\* InProgressRequest::OnReceiveRedirect
OnReceiveRedirect(w, id, redirect_info, d) ==
    LET r == w.requests_[id]
        w0 == Recv(w, id, "OnReceiveRedirect", "")
    IN IF r.current_request_uses_header_client_
       THEN ContinueToBeforeRedirect(
                [w0 EXCEPT !.requests_[id].current_response_ =
                               IF @ # NullHeaders THEN @ ELSE "net"],
                id, redirect_info, OK)
       ELSE HandleResponseOrRedirectHeaders(
                [w0 EXCEPT !.requests_[id].current_response_ = "net"], id,
                [cont |-> "ContinueToBeforeRedirect", info |-> redirect_info], d)

----------------------------------------------------------------------------
\* ProxyingURLLoaderFactory.

\* The factory hands a call of CreateLoaderAndStart to a collaborator, with the
\* arguments it came with, and creates no InProgressRequest.
HandOver(w, to, scheme, has_listener) ==
    [w EXCEPT !.factory_out =
        {[to |-> to, scheme |-> scheme, has_listener |-> has_listener]}]

\* intercepted_handlers_.find(request.url.scheme()) finds a handler: the user
\* has intercepted the scheme, which may be the file scheme.
IsIntercepted(scheme) == scheme \in {"intercepted", "intercepted_file"}

\* request.url.SchemeIsFile()
SchemeIsFile(scheme) == scheme \in {"file", "intercepted_file"}

\* A CreateLoaderAndStart that looks for a file url before it looks for an
\* intercepted scheme.
CreateLoaderAndStart_FileFirst(w, scheme, has_listener, request_id, request, d) ==
    IF SchemeIsFile(scheme)
    THEN HandOver(w, "asar", scheme, has_listener)
    ELSE IF IsIntercepted(scheme)
    THEN HandOver(w, "intercepted_handler", scheme, has_listener)
    ELSE IF ~has_listener
    THEN HandOver(w, "target_factory", scheme, has_listener)
    ELSE
    LET web_request_id == w.g_request_id + 1
        w1 == [w EXCEPT
                 !.g_request_id = web_request_id,
                 !.table = IF request_id # 0 /\ request_id \notin DOMAIN @
                           THEN [k \in DOMAIN @ \cup {request_id} |->
                                   IF k = request_id THEN web_request_id ELSE @[k]]
                           ELSE @,
                 !.requests_ = [k \in DOMAIN @ \cup {web_request_id} |->
                                  IF k = web_request_id
                                  THEN InProgressRequest(request_id, request)
                                  ELSE @[k]],
                 !.issuer[web_request_id] = [connected |-> TRUE, awaiting |-> FALSE]]
    IN Restart(w1, web_request_id, d)

\* A CreateLoaderAndStart that takes a web_request_id before it asks whether
\* any listener is there.
CreateLoaderAndStart_AllocatesFirst(w, scheme, has_listener, request_id, request, d) ==
    IF IsIntercepted(scheme)
    THEN HandOver(w, "intercepted_handler", scheme, has_listener)
    ELSE IF SchemeIsFile(scheme)
    THEN HandOver(w, "asar", scheme, has_listener)
    ELSE
    LET web_request_id == w.g_request_id + 1
        w0 == [w EXCEPT !.g_request_id = web_request_id]
    IN IF ~has_listener
       THEN HandOver(w0, "target_factory", scheme, has_listener)
       ELSE
       LET w1 == [w0 EXCEPT
                    !.table = IF request_id # 0 /\ request_id \notin DOMAIN @
                              THEN [k \in DOMAIN @ \cup {request_id} |->
                                      IF k = request_id THEN web_request_id ELSE @[k]]
                              ELSE @,
                    !.requests_ = [k \in DOMAIN @ \cup {web_request_id} |->
                                     IF k = web_request_id
                                     THEN InProgressRequest(request_id, request)
                                     ELSE @[k]],
                    !.issuer[web_request_id] =
                        [connected |-> TRUE, awaiting |-> FALSE]]
       IN Restart(w1, web_request_id, d)

\* ProxyingURLLoaderFactory::CreateLoaderAndStart.  scheme is the request url's
\* scheme as the two lookups see it, has_listener what HasListener() returns.
CreateLoaderAndStart(w, scheme, has_listener, request_id, request, d) ==
    IF IsIntercepted(scheme)
    THEN HandOver(w, "intercepted_handler", scheme, has_listener)
    ELSE IF SchemeIsFile(scheme)
    THEN HandOver(w, "asar", scheme, has_listener)
    ELSE IF ~has_listener
    THEN HandOver(w, "target_factory", scheme, has_listener)
    ELSE
    LET web_request_id == w.g_request_id + 1
        w1 == [w EXCEPT
                 !.g_request_id = web_request_id,
                 !.table = IF request_id # 0 /\ request_id \notin DOMAIN @
                           THEN [k \in DOMAIN @ \cup {request_id} |->
                                   IF k = request_id THEN web_request_id ELSE @[k]]
                           ELSE @,
                 !.requests_ = [k \in DOMAIN @ \cup {web_request_id} |->
                                  IF k = web_request_id
                                  THEN InProgressRequest(request_id, request)
                                  ELSE @[k]],
                 !.issuer[web_request_id] = [connected |-> TRUE, awaiting |-> FALSE]]
    IN Restart(w1, web_request_id, d)

\* ProxyingURLLoaderFactory::Clone
Clone(w) == [w EXCEPT !.proxy_receivers_ = @ + 1]

\* ProxyingURLLoaderFactory::OnLoaderCreated
FactoryOnLoaderCreated(w, request_id) ==
    IF request_id \notin DOMAIN w.table
    THEN w
    ELSE OnLoaderCreated(w, w.table[request_id])

\* ProxyingURLLoaderFactory::OnTargetFactoryError
OnTargetFactoryError(w) ==
    MaybeDeleteThis([w EXCEPT !.target_factory_ = FALSE, !.proxy_receivers_ = 0])

\* An OnProxyBindingError that keeps target_factory_ when the last receiver
\* has gone.
OnProxyBindingError_KeepsTarget(w) == MaybeDeleteThis(w)

\* ProxyingURLLoaderFactory::OnProxyBindingError, which runs after the receiver
\* set has dropped the receiver whose pipe broke.
OnProxyBindingError(w) ==
    MaybeDeleteThis(IF w.proxy_receivers_ = 0
                    THEN [w EXCEPT !.target_factory_ = FALSE]
                    ELSE w)

----------------------------------------------------------------------------
\* The state after construction.

Init ==
    /\ requests_ = <<>>
    /\ network_request_id_to_web_request_id_ = <<>>
    /\ g_request_id = 0
    /\ target_factory_ = TRUE
    /\ proxy_receivers_ = 1
    /\ url_loader_header_client_receiver_ = TRUE
    /\ deleted = 0
    /\ net = [id \in Ids |-> NoLoader]
    /\ pending = [id \in Ids |-> {}]
    /\ issuer = [id \in Ids |-> [connected |-> FALSE, awaiting |-> FALSE]]
    /\ trace = [id \in Ids |-> <<>>]
    /\ stats = [id \in Ids |-> [completes |-> 0, legs |-> 0, removed |-> FALSE,
                                late |-> FALSE, rises |-> 0,
                                extra_headers |-> FALSE, after |-> "",
                                outstanding |-> 0,
                                follow |-> [asked |-> NoParams, sent |-> NoParams],
                                bsh |-> [removed |-> {}, set |-> {}]]]
    /\ factory_out = {}

\* The step to world w.
Becomes(w) ==
    /\ requests_' = w.requests_
    /\ network_request_id_to_web_request_id_' = w.table
    /\ g_request_id' = w.g_request_id
    /\ target_factory_' = w.target_factory_
    /\ proxy_receivers_' = w.proxy_receivers_
    /\ url_loader_header_client_receiver_' = w.header_client
    /\ deleted' = w.deleted
    /\ net' = w.net
    /\ pending' = w.pending
    /\ issuer' = w.issuer
    /\ trace' = w.trace
    /\ stats' = w.stats
    /\ factory_out' = w.factory_out

----------------------------------------------------------------------------
\* What the listener hooks may answer.

Decision(br, url, bsh, hr, override) ==
    [br |-> br, url |-> url, bsh |-> bsh, hr |-> hr, override |-> override]

Results == {OK, ERR_BLOCKED_BY_CLIENT, ERR_IO_PENDING}

\* The urls a before-request hook may redirect to: none, or while the request
\* ran fewer than MaxLegs legs before this one, its url.
HookUrls(legs) == IF legs < MaxLegs THEN {NoUrl, "hookU"} ELSE {NoUrl}

\* The headers a headers-received hook may supply.
HookOverrides(legs) ==
    {NullHeaders, "plain", "redirect_no_location"}
        \cup (IF legs < MaxLegs THEN {"redirect"} ELSE {})

\* The answers to the hooks of a leg's start: before-request, before-send-headers.
StartDecisions(legs) ==
    {Decision(OK, u, b, OK, NullHeaders) : u \in HookUrls(legs), b \in Results}
        \cup {Decision(b, NoUrl, OK, OK, NullHeaders) :
                b \in {ERR_BLOCKED_BY_CLIENT, ERR_IO_PENDING}}

\* The answers of hooks that leave the request as it is: the before-request hook
\* proceeds, cancels or is pending, the before-send-headers hook proceeds.
PlainDecisions ==
    {Decision(b, NoUrl, OK, OK, NullHeaders) : b \in Results}

\* The answers to the headers-received hook.
ResponseDecisions(legs) ==
    {Decision(OK, NoUrl, OK, OK, o) : o \in HookOverrides(legs)}
        \cup {Decision(OK, NoUrl, OK, h, NullHeaders) :
                h \in {ERR_BLOCKED_BY_CLIENT, ERR_IO_PENDING}}

----------------------------------------------------------------------------
\* The issuer.

\* The request the issuer starts with.
InitialRequest ==
    ResourceRequest("origU", "POST", [h \in HeaderNames |-> "orig"], TRUE)

\* The traces of the requests that are gone, and what was recorded of their
\* last leg, are kept until the issuer starts the next request that enters the
\* pipeline.
Forget(w) ==
    [w EXCEPT !.trace = [id \in Ids |-> IF Live(w, id) THEN @[id] ELSE <<>>],
              !.stats = [id \in Ids |->
                           IF Live(w, id)
                           THEN @[id]
                           ELSE [@[id] EXCEPT
                                   !.after = "",
                                   !.follow = [asked |-> NoParams, sent |-> NoParams],
                                   !.bsh = [removed |-> {}, set |-> {}]]]]

\* The issuer calls CreateLoaderAndStart through one of the factory's receivers:
\* for a url of one of Schemes, while the listener engine answers HasListener()
\* with one of Listeners and the before-request and before-send-headers hooks
\* with one of Starts.  It starts at most `most` requests that enter the pipeline,
\* at most `together` of them live at a time.  A call the factory hands elsewhere
\* asks no hook; one that repeats the call handed over last changes nothing and
\* is left out.
IssuerCreateLoaderAndStart(Schemes, Listeners, NetworkIds, Starts, most, together) ==
    /\ deleted = 0
    /\ proxy_receivers_ > 0
    /\ \E scheme \in Schemes, has_listener \in Listeners, request_id \in NetworkIds :
          IF scheme = "http" /\ has_listener
          THEN /\ g_request_id < most
               /\ Cardinality(DOMAIN requests_) < together
               /\ \E d \in Starts :
                     Becomes(CreateLoaderAndStart(Forget(World), scheme,
                                                  has_listener, request_id,
                                                  InitialRequest, d))
          ELSE /\ \A e \in factory_out :
                     e.scheme # scheme \/ e.has_listener # has_listener
               /\ Becomes(CreateLoaderAndStart(World, scheme, has_listener,
                                               request_id, InitialRequest,
                                               Decision(OK, NoUrl, OK, OK,
                                                        NullHeaders)))

\* The issuer clones the factory through one of its receivers.
IssuerClone ==
    /\ deleted = 0
    /\ proxy_receivers_ > 0
    /\ proxy_receivers_ < MaxReceivers
    /\ Becomes(Clone(World))

\* One of the issuer-facing pipes of the factory breaks.
ProxyBindingError ==
    /\ deleted = 0
    /\ proxy_receivers_ > 0
    /\ Becomes(OnProxyBindingError([World EXCEPT !.proxy_receivers_ = @ - 1]))

\* The transport-facing pipe of the factory breaks.
TargetFactoryError ==
    /\ deleted = 0
    /\ target_factory_
    /\ Becomes(OnTargetFactoryError(World))

\* The header values the issuer adds in FollowRedirect: "iss" for each name of m.
IssuerHeaders(m) == [h \in HeaderNames |-> IF h \in m THEN "iss" ELSE Absent]

\* The issuer follows the redirect it was sent.  N: the header names it may touch.
IssuerFollowRedirect(N) ==
    \E id \in DOMAIN requests_ :
       /\ issuer[id].awaiting
       /\ \E removed \in SUBSET N, m \in SUBSET N,
             d \in StartDecisions(stats[id].legs) :
             Becomes(FollowRedirect(World, id, removed, IssuerHeaders(m), NoUrl, d))

\* An issuer that calls FollowRedirect on its loader when it was sent no
\* redirect, or a second time: proxied_loader_binding_ takes the call whenever
\* the issuer's end is connected.
IssuerFollowRedirectAnytime ==
    \E id \in DOMAIN requests_ :
       /\ issuer[id].connected
       /\ ~issuer[id].awaiting
       /\ stats[id].legs < MaxLegs
       /\ \E d \in StartDecisions(stats[id].legs) :
             Becomes(FollowRedirect(World, id, {}, IssuerHeaders({}), NoUrl, d))

\* The calls of the issuer on its loader that InProgressRequest passes on.
LoaderCalls == {"SetPriority", "PauseReadingBodyFromNet", "ResumeReadingBodyFromNet"}

\* The issuer calls one of them on proxied_loader_binding_, which is never
\* paused: at most MaxLoaderCalls reach the transport in a leg.
IssuerLoaderCall ==
    \E id \in DOMAIN requests_ :
       /\ issuer[id].connected
       /\ Cardinality({i \in 1..Len(trace[id]) :
                          trace[id][i].k = "net" /\ trace[id][i].n \in LoaderCalls})
             < MaxLoaderCalls
       /\ \/ Becomes(SetPriority(World, id))
          \/ Becomes(PauseReadingBodyFromNet(World, id))
          \/ Becomes(ResumeReadingBodyFromNet(World, id))

\* The issuer's end of target_client_ goes away: the connection error handler
\* set in the constructor runs OnRequestError(ERR_ABORTED).
IssuerDisconnect ==
    \E id \in DOMAIN requests_ :
       /\ issuer[id].connected
       /\ Becomes(OnRequestError(
                      Recv([World EXCEPT !.issuer[id].connected = FALSE],
                           id, "disconnect", ERR_ABORTED),
                      id, ERR_ABORTED))

----------------------------------------------------------------------------
\* The transport.

Msg(m, code, info) == [m |-> m, code |-> code, info |-> info]

\* What the transport's loader may send next and the stage that takes it to.
Emits(id) ==
    LET l == net[id]
        redirects ==
            IF stats[id].legs < MaxLegs
            THEN {<<Msg("OnReceiveRedirect", "", RedirectInfo(302, m, "netU")),
                    "redirected">> : m \in {"GET", l.request.method}}
            ELSE {}
        failure == {<<Msg("OnComplete", ERR_FAILED, NoInfo), "done">>}
        success == {<<Msg("OnComplete", OK, NoInfo), "done">>}
    IN CASE l.stage = "started" ->
              redirects \cup failure
                  \cup {<<Msg("OnReceiveResponse", "", NoInfo), "responded">>}
         [] l.stage = "redirected" -> failure
         [] l.stage = "responded" ->
              success \cup failure
                  \cup {<<Msg("OnStartLoadingResponseBody", "", NoInfo), "body">>}
         [] l.stage = "body" -> success \cup failure
         [] OTHER -> {}

\* The transport's loader sends a message on the request's client pipe.
TransportSends ==
    \E id \in DOMAIN requests_ :
       \E e \in Emits(id) :
          /\ net' = [net EXCEPT ![id].queue = Append(@, e[1]), ![id].stage = e[2]]
          /\ UNCHANGED <<requests_, network_request_id_to_web_request_id_,
                         g_request_id, target_factory_, proxy_receivers_,
                         url_loader_header_client_receiver_, deleted, pending,
                         issuer, trace, stats, factory_out>>

\* The handler of a transport message.
Dispatch(w, id, msg, d) ==
    CASE msg.m = "OnReceiveRedirect" -> OnReceiveRedirect(w, id, msg.info, d)
      [] msg.m = "OnReceiveResponse" -> OnReceiveResponse(w, id, d)
      [] msg.m = "OnStartLoadingResponseBody" -> OnStartLoadingResponseBody(w, id)
      [] OTHER -> OnComplete(w, id, msg.code)

\* proxied_client_binding_ takes the next message off its pipe, which it does
\* while it is bound and not paused.
ClientDelivers ==
    \E id \in DOMAIN requests_ :
       /\ requests_[id].proxied_client_binding_.bound
       /\ ~requests_[id].proxied_client_binding_.paused
       /\ net[id].queue # <<>>
       /\ \E d \in ResponseDecisions(stats[id].legs) :
             Becomes(Dispatch([World EXCEPT !.net[id].queue = Tail(@)], id,
                              Head(net[id].queue), d))

----------------------------------------------------------------------------
\* The listener engine.

\* The before-send-headers hook has edited request_.headers through the pointer
\* it was given: it removed the names of removed and set those of set.
HookEditsHeaders(w, id, removed, set) ==
    [w EXCEPT
       !.requests_[id].request_.headers =
           [h \in HeaderNames |->
              IF h \in removed THEN Absent ELSE IF h \in set THEN "hk" ELSE @[h]],
       !.stats[id].bsh = [removed |-> removed, set |-> set]]

\* A continuation of a live request runs with error_code, after the hook wrote
\* its outputs through the pointers it was given.
ContinuationOfLive(w, id, c, error_code, url, removed, set, override, d) ==
    LET w0 == [w EXCEPT !.pending[id] = @ \ {c}]
        w1 == IF error_code # OK THEN w0
              ELSE CASE c.hook = "OnBeforeRequest" ->
                          [w0 EXCEPT !.requests_[id].redirect_url_ = url]
                     [] c.hook = "OnBeforeSendHeaders" ->
                          HookEditsHeaders(w0, id, removed, set)
                     [] OTHER ->
                          [w0 EXCEPT !.requests_[id].override_headers_ = override]
        w2 == Decide(w1, id, c.hook, error_code,
                     IF error_code # OK THEN ""
                     ELSE IF c.hook = "OnBeforeRequest" THEN url
                     ELSE IF c.hook = "OnHeadersReceived" THEN override
                     ELSE "",
                     1)
    IN IF c.cont = "ContinueToSendHeaders"
       THEN ContinueToSendHeaders(w2, id, removed, set, error_code)
       ELSE RunContinuation(w2, id, c, error_code, d)

\* A continuation of a request that is gone which still tells the listener
\* engine of an error.
ContinuationOfGone_Notifies(w, id, c) ==
    Hook([w EXCEPT !.pending[id] = @ \ {c}, !.stats[id].late = TRUE],
         id, "OnErrorOccurred")

\* A continuation of a request that is gone runs.  It is bound to
\* weak_factory_.GetWeakPtr(), which the request's destructor invalidated: the
\* call is dropped.  stats[id].late records that it ran.
ContinuationOfGone(w, id, c) ==
    [w EXCEPT !.pending[id] = @ \ {c}, !.stats[id].late = TRUE]

\* The listener engine runs a continuation it holds.  It is bound to a weak
\* pointer: once the request is gone, running it does nothing.
\* N: the header names a before-send-headers hook may touch.  Proceeds: whether
\* a continuation may run with OK.
ListenerContinues(N, Proceeds) ==
    \E id \in Ids :
       \E c \in pending[id] :
          IF id \in DOMAIN requests_
          THEN \/ Proceeds /\
                  \E url \in (IF c.hook = "OnBeforeRequest"
                              THEN HookUrls(stats[id].legs - 1) ELSE {NoUrl}),
                     removed \in (IF c.hook = "OnBeforeSendHeaders"
                                  THEN SUBSET N ELSE {{}}),
                     override \in (IF c.hook = "OnHeadersReceived"
                                   THEN HookOverrides(stats[id].legs)
                                   ELSE {NullHeaders}),
                     d \in (IF c.hook = "OnBeforeRequest"
                            THEN StartDecisions(stats[id].legs - 1)
                            ELSE {Decision(OK, NoUrl, OK, OK, NullHeaders)}) :
                     \E set \in (IF c.hook = "OnBeforeSendHeaders"
                                 THEN SUBSET (N \ removed) ELSE {{}}) :
                        Becomes(ContinuationOfLive(World, id, c, OK, url, removed,
                                                   set, override, d))
               \/ Becomes(ContinuationOfLive(
                              World, id, c, ERR_BLOCKED_BY_CLIENT, NoUrl, {}, {},
                              NullHeaders, Decision(OK, NoUrl, OK, OK, NullHeaders)))
          ELSE Becomes(ContinuationOfGone(World, id, c))

----------------------------------------------------------------------------
\* The specifications.

\* The life of requests that enter the pipeline, one at a time.
\* N: the request header names the issuer and the hooks may touch.
NextOn(N) ==
    \/ IssuerCreateLoaderAndStart({"http"}, {TRUE}, {1}, StartDecisions(0),
                                  MaxRequests, 1)
    \/ ProxyBindingError
    \/ TargetFactoryError
    \/ IssuerFollowRedirect(N)
    \/ IssuerDisconnect
    \/ TransportSends
    \/ ClientDelivers
    \/ ListenerContinues(N, TRUE)

Next == NextOn({})

\* Requests whose hooks and issuer leave the request headers alone.
Spec == Init /\ [][Next]_vars

\* Requests whose before-send-headers hooks and issuer edit the request headers.
NextHeaders == NextOn(HeaderNames)

SpecHeaders == Init /\ [][NextHeaders]_vars

\* Requests whose issuer also calls SetPriority, PauseReadingBodyFromNet and
\* ResumeReadingBodyFromNet on its loader.
NextLoader ==
    \/ Next
    \/ IssuerLoaderCall

SpecLoader == Init /\ [][NextLoader]_vars

\* Requests whose issuer also calls FollowRedirect out of turn.
NextReentrant ==
    \/ Next
    \/ IssuerFollowRedirectAnytime

SpecReentrant == Init /\ [][NextReentrant]_vars

\* The trusted-header channel.  Sent(id, k, n): the trace of request id has an
\* event n of kind k.
Sent(id, k, n) == \E i \in 1..Len(trace[id]) : trace[id][i].k = k /\ trace[id][i].n = n

\* The transport tells the factory's header client of the loader it made for a
\* request, once for a loader, with the id CreateLoaderAndStart gave it.  A
\* receiver that is bound is not bound again.
TransportLoaderCreated ==
    \E id \in DOMAIN requests_ :
       LET request_id == requests_[id].network_service_request_id_
           w0 == Log(World, id, Ev("header", "OnLoaderCreated", "", "", request_id))
       IN /\ url_loader_header_client_receiver_
          /\ net[id].stage # "none"
          /\ ~Sent(id, "header", "OnLoaderCreated")
          /\ request_id \in DOMAIN network_request_id_to_web_request_id_ =>
                ~requests_[network_request_id_to_web_request_id_[request_id]]
                    .header_client_receiver_.bound
          /\ Becomes(FactoryOnLoaderCreated(w0, request_id))

\* The transport sends an event on a request's header_client_receiver_: the
\* request headers it is about to send, then the response headers it got, each
\* once for a request.
TransportHeaderEvent ==
    \E id \in DOMAIN requests_ :
       /\ requests_[id].header_client_receiver_.bound
       /\ net[id].stage = "started"
       /\ \/ /\ ~Sent(id, "reply", "OnBeforeSendHeaders")
             /\ \E d \in StartDecisions(0) :
                   Becomes(OnBeforeSendHeaders(World, id, InitialRequest.headers, d))
          \/ /\ Sent(id, "reply", "OnBeforeSendHeaders")
             /\ ~Sent(id, "reply", "OnHeadersReceived")
             /\ \E d \in ResponseDecisions(stats[id].legs) :
                   Becomes(OnHeadersReceived(World, id, "cookie", d))

\* A factory whose header client may be bound, and a listener engine that may
\* have a listener asking for extra headers for every request.
InitHeaderClient ==
    /\ requests_ = <<>>
    /\ network_request_id_to_web_request_id_ = <<>>
    /\ g_request_id = 0
    /\ target_factory_ = TRUE
    /\ proxy_receivers_ = 1
    /\ url_loader_header_client_receiver_ \in BOOLEAN
    /\ deleted = 0
    /\ net = [id \in Ids |-> NoLoader]
    /\ pending = [id \in Ids |-> {}]
    /\ issuer = [id \in Ids |-> [connected |-> FALSE, awaiting |-> FALSE]]
    /\ trace = [id \in Ids |-> <<>>]
    /\ \E extra \in BOOLEAN :
          stats = [id \in Ids |-> [completes |-> 0, legs |-> 0, removed |-> FALSE,
                                   late |-> FALSE, rises |-> 0,
                                   extra_headers |-> extra, after |-> "",
                                   outstanding |-> 0,
                                   follow |-> [asked |-> NoParams,
                                               sent |-> NoParams],
                                   bsh |-> [removed |-> {}, set |-> {}]]]
    /\ factory_out = {}

NextHeaderClient ==
    \/ IssuerCreateLoaderAndStart({"http"}, {TRUE}, NetIds, StartDecisions(0),
                                  MaxRequests, 1)
    \/ IssuerFollowRedirect({})
    \/ IssuerDisconnect
    \/ TransportLoaderCreated
    \/ TransportHeaderEvent
    \/ TransportSends
    \/ ClientDelivers
    \/ ListenerContinues({}, TRUE)

SpecHeaderClient == InitHeaderClient /\ [][NextHeaderClient]_vars

\* The factory and the coming and going of its requests: requests of every
\* scheme, with and without listeners, several live together, up to the point
\* where the transport would answer.
InitFactory ==
    /\ requests_ = <<>>
    /\ network_request_id_to_web_request_id_ = <<>>
    /\ g_request_id = 0
    /\ target_factory_ = TRUE
    /\ proxy_receivers_ = 1
    /\ url_loader_header_client_receiver_ \in BOOLEAN
    /\ deleted = 0
    /\ net = [id \in Ids |-> NoLoader]
    /\ pending = [id \in Ids |-> {}]
    /\ issuer = [id \in Ids |-> [connected |-> FALSE, awaiting |-> FALSE]]
    /\ trace = [id \in Ids |-> <<>>]
    /\ stats = [id \in Ids |-> [completes |-> 0, legs |-> 0, removed |-> FALSE,
                                late |-> FALSE, rises |-> 0,
                                extra_headers |-> FALSE, after |-> "",
                                outstanding |-> 0,
                                follow |-> [asked |-> NoParams, sent |-> NoParams],
                                bsh |-> [removed |-> {}, set |-> {}]]]
    /\ factory_out = {}

NextFactory ==
    \/ IssuerCreateLoaderAndStart({"intercepted", "intercepted_file", "file", "http"},
                                  BOOLEAN, NetIds,
                                  PlainDecisions, MaxConcurrent, MaxConcurrent)
    \/ IssuerClone
    \/ ProxyBindingError
    \/ TargetFactoryError
    \/ IssuerDisconnect
    \/ ListenerContinues({}, FALSE)

SpecFactory == InitFactory /\ [][NextFactory]_vars

\* The same factory, whose transport also tells the header client of the loaders
\* it made.
NextRouting ==
    \/ NextFactory
    \/ TransportLoaderCreated

SpecRouting == InitFactory /\ [][NextRouting]_vars

----------------------------------------------------------------------------
\* Reading a request's trace.

Idx(t) == 1..Len(t)

IsEv(e, k, n) == e.k = k /\ e.n = n

Has(t, k, n) == \E i \in Idx(t) : IsEv(t[i], k, n)

CountEv(t, k, n) == Cardinality({i \in Idx(t) : IsEv(t[i], k, n)})

\* The events of one kind, in their order.
EventsOf(t, k) == SelectSeq(t, LAMBDA e : e.k = k)

\* An error condition: a hook's decision resolved with a non-OK code, at once or
\* by its continuation, or the transport's OnComplete carried a non-OK status.
ErrorAt(t, i) ==
    \/ t[i].k = "decide" /\ t[i].code # OK
    \/ IsEv(t[i], "recv", "OnComplete") /\ t[i].code # OK

\* A redirect had been forwarded to the issuer before event i of the leg.
ForwardedBefore(t, i) ==
    \E j \in Idx(t) : j < i /\ IsEv(t[j], "issuer", "OnReceiveRedirect")

\* A call that makes the transport send a request.
IsTransportCall(e) ==
    e.k = "net" /\ e.n \in {"CreateLoaderAndStart", "FollowRedirect"}

----------------------------------------------------------------------------
\* C1: target_client_->OnComplete is called at most once for a request, so its
\* issuer receives a terminal OnComplete at most once, whatever error paths run
\* after the first one.
C1_AtMostOneTerminal == \A id \in Ids : stats[id].completes <= 1

\* A terminal event was sent and a second error path ran after it: the
\* continuation of a hook that was still held.
C1_Witness ==
    \E id \in Ids : stats[id].completes = 1 /\ stats[id].late /\ stats[id].removed

----------------------------------------------------------------------------
\* C2 as stated: every error condition on a live request ends with the error
\* delivered to the issuer once, OnErrorOccurred notified and the request
\* deregistered, also after a redirect was forwarded to the issuer.
C2_EveryErrorDelivered ==
    \A id \in Ids : \A i \in Idx(trace[id]) :
       ErrorAt(trace[id], i) =>
          /\ CountEv(trace[id], "issuer", "OnComplete") = 1
          /\ Has(trace[id], "hook", "OnErrorOccurred")
          /\ id \notin DOMAIN requests_

\* C2: every error condition on a live request deregisters it.  When no redirect
\* of the leg had been forwarded to the issuer, the error is delivered to the
\* issuer once, with its code, and OnErrorOccurred is notified once; when one had
\* (request_completed_ is set until FollowRedirect), the issuer receives no
\* OnComplete and OnErrorOccurred is not notified.
C2_ErrorFinalizes ==
    \A id \in Ids : \A i \in Idx(trace[id]) :
       ErrorAt(trace[id], i) =>
          /\ id \notin DOMAIN requests_
          /\ stats[id].removed
          /\ IF ForwardedBefore(trace[id], i)
             THEN /\ ~Has(trace[id], "issuer", "OnComplete")
                  /\ ~Has(trace[id], "hook", "OnErrorOccurred")
             ELSE /\ CountEv(trace[id], "issuer", "OnComplete") = 1
                  /\ CountEv(trace[id], "hook", "OnErrorOccurred") = 1
                  /\ \A j \in Idx(trace[id]) :
                        IsEv(trace[id][j], "issuer", "OnComplete") =>
                           j > i /\ trace[id][j].code = trace[id][i].code

\* The transport failed after a redirect was forwarded and before the issuer
\* followed it.
C2_Witness ==
    \E id \in Ids : \E i \in Idx(trace[id]) :
       /\ IsEv(trace[id][i], "recv", "OnComplete")
       /\ trace[id][i].code # OK
       /\ ForwardedBefore(trace[id], i)

----------------------------------------------------------------------------
\* C3: when the before-request hook cancels a leg, at once or by its
\* continuation, the leg makes no CreateLoaderAndStart and no FollowRedirect call
\* to the transport, invokes no before-send-headers and no send-headers hook, and
\* the request is removed.
C3_CancelMakesNoTransportCall ==
    \A id \in Ids : \A i \in Idx(trace[id]) :
       (IsEv(trace[id][i], "decide", "OnBeforeRequest") /\ trace[id][i].code # OK) =>
          /\ id \notin DOMAIN requests_
          /\ \A j \in Idx(trace[id]) :
                /\ ~IsTransportCall(trace[id][j])
                /\ ~IsEv(trace[id][j], "hook", "OnBeforeSendHeaders")
                /\ ~IsEv(trace[id][j], "hook", "OnSendHeaders")

\* The continuation of a before-request hook cancelled the leg that follows a
\* redirect.
C3_Witness ==
    \E id \in Ids : \E i \in Idx(trace[id]) :
       /\ stats[id].legs >= 2
       /\ IsEv(trace[id][i], "decide", "OnBeforeRequest")
       /\ trace[id][i].code # OK
       /\ trace[id][i].status = 1

----------------------------------------------------------------------------
\* C4: when the before-request hook sets a redirect url U and its decision
\* resolves to proceed, the issuer receives one OnReceiveRedirect in the leg,
\* to U with status 307, after the connection with the current URLLoader was
\* closed; the leg makes no CreateLoaderAndStart and no FollowRedirect call, and
\* the request's url is U.
C4_BeforeRequestRedirect ==
    \A id \in Ids : \A i \in Idx(trace[id]) :
       LET t == trace[id] IN
       (IsEv(t[i], "decide", "OnBeforeRequest") /\ t[i].code = OK
           /\ t[i].val # NoUrl) =>
          /\ CountEv(t, "issuer", "OnReceiveRedirect") = 1
          /\ \A j \in Idx(t) :
                IsEv(t[j], "issuer", "OnReceiveRedirect") =>
                   /\ t[j].val = t[i].val
                   /\ t[j].status = 307
                   /\ \E m \in Idx(t) : i < m /\ m < j /\ IsEv(t[m], "net", "Close")
          /\ \A j \in Idx(t) : ~IsTransportCall(t[j])
          /\ id \in DOMAIN requests_ =>
                /\ requests_[id].request_.url = t[i].val
                /\ ~requests_[id].target_loader_
                /\ ~requests_[id].proxied_client_binding_.bound
                /\ net[id] = NoLoader

\* The before-request hook of a leg that follows a transport redirect redirected
\* in its turn, by its continuation, and the live URLLoader was closed.
C4_Witness ==
    \E id \in Ids : \E i, m \in Idx(trace[id]) :
       /\ IsEv(trace[id][i], "decide", "OnBeforeRequest")
       /\ trace[id][i].val = "hookU"
       /\ trace[id][i].status = 1
       /\ IsEv(trace[id][m], "net", "Close")
       /\ trace[id][m].code = "bound"
       /\ Has(trace[id], "issuer", "OnReceiveRedirect")

----------------------------------------------------------------------------
\* A transport message the issuer is sent as it came: the response, the start of
\* the body, the transport's own redirect, the transport's completion.
Passed(e) ==
    /\ e.k = "issuer"
    /\ \/ e.n \in {"OnReceiveResponse", "OnStartLoadingResponseBody"}
       \/ e.n = "OnReceiveRedirect" /\ e.val = "netU"
       \/ e.n = "OnComplete" /\ e.code \in {OK, ERR_FAILED}

\* The issuer is sent the transport's messages of a leg in the order in which
\* proxied_client_binding_ took them off its pipe, each after it was taken.
InArrivalOrder(t) ==
    \A j \in Idx(t) :
       Passed(t[j]) =>
          \E b \in Idx(t) :
             /\ b < j
             /\ IsEv(t[b], "recv", t[j].n)
             /\ \A i \in Idx(t) :
                   (i < j /\ Passed(t[i])) =>
                      \E a \in Idx(t) : a < b /\ a < i /\ IsEv(t[a], "recv", t[i].n)

\* C5: while the continuation of a hook that returned ERR_IO_PENDING is held and
\* has not run, the issuer of the request receives no event; and the events the
\* issuer receives in a leg are the transport's, in the order of their arrival,
\* whether the hooks proceeded at once or by their continuations.
C5_NoEventWhilePending ==
    /\ [](\A id \in Ids : InArrivalOrder(trace[id]))
    /\ [][\A id \in Ids :
             (pending[id] # {} /\ pending'[id] = pending[id]) =>
                EventsOf(trace'[id], "issuer") = EventsOf(trace[id], "issuer")]_vars

\* The continuation of a headers-received hook proceeded, and the issuer then
\* received the response, the start of the body and the completion.
C5_Witness ==
    \E id \in Ids : \E i, j, k, l \in Idx(trace[id]) :
       /\ i < j /\ j < k /\ k < l
       /\ IsEv(trace[id][i], "decide", "OnHeadersReceived")
       /\ trace[id][i].code = OK
       /\ trace[id][i].status = 1
       /\ IsEv(trace[id][j], "issuer", "OnReceiveResponse")
       /\ IsEv(trace[id][k], "issuer", "OnStartLoadingResponseBody")
       /\ IsEv(trace[id][l], "issuer", "OnComplete")

----------------------------------------------------------------------------
\* C6: the factory has freed itself exactly when its transport-facing channel and
\* all its issuer-facing channels are closed and no request is registered, and
\* it frees itself once.
C6_FreedExactlyWhenIdle ==
    /\ deleted <= 1
    /\ deleted = 1 <=> /\ ~target_factory_
                       /\ proxy_receivers_ = 0
                       /\ DOMAIN requests_ = {}

\* The factory freed itself on the removal of its last request, its channels
\* having closed while requests were registered.
C6_Witness ==
    /\ deleted = 1
    /\ \E id \in Ids : stats[id].removed /\ stats[id].completes = 1

----------------------------------------------------------------------------
\* C7: a call of CreateLoaderAndStart for a url that is neither intercepted nor
\* a file url, while HasListener() is false, is handed to target_factory_ with
\* the call's arguments, and it adds no request to requests_, no entry to the
\* correlation table, takes no web_request_id and invokes no hook.
C7_PassThrough ==
    [][\A e \in factory_out' \ factory_out :
          (e.scheme = "http" /\ ~e.has_listener) =>
             /\ e.to = "target_factory"
             /\ requests_' = requests_
             /\ network_request_id_to_web_request_id_' =
                   network_request_id_to_web_request_id_
             /\ g_request_id' = g_request_id
             /\ trace' = trace
             /\ pending' = pending
             /\ net' = net]_vars

\* A request was passed through beside a registered one.
C7_Witness ==
    /\ DOMAIN requests_ # {}
    /\ \E e \in factory_out :
          /\ e.to = "target_factory"
          /\ e.scheme = "http"
          /\ ~e.has_listener

----------------------------------------------------------------------------
\* C8: when the headers-received hook supplies override headers with a redirect
\* status and no Location, the request is finalized as an error: the issuer is
\* sent an OnComplete with a non-OK code and no response, and the request is
\* deregistered.
C8_MalformedRedirectIsError ==
    \A id \in Ids : \A i \in Idx(trace[id]) :
       (IsEv(trace[id][i], "decide", "OnHeadersReceived") /\ trace[id][i].code = OK
           /\ trace[id][i].val = "redirect_no_location") =>
          /\ id \notin DOMAIN requests_
          /\ ~Has(trace[id], "issuer", "OnReceiveResponse")
          /\ \E j \in Idx(trace[id]) :
                /\ IsEv(trace[id][j], "issuer", "OnComplete")
                /\ trace[id][j].code # OK

----------------------------------------------------------------------------
\* The hooks of a leg, by name, in the order of their invocation.
HookNames(t) == [i \in Idx(EventsOf(t, "hook")) |-> EventsOf(t, "hook")[i].n]

\* The hooks that may be invoked next after hook h in a leg.
NextHooks(h) ==
    CASE h = "OnBeforeRequest" ->
            {"OnBeforeSendHeaders", "OnBeforeRedirect", "OnErrorOccurred"}
      [] h = "OnBeforeSendHeaders" -> {"OnSendHeaders", "OnErrorOccurred"}
      [] h = "OnSendHeaders" -> {"OnHeadersReceived", "OnErrorOccurred"}
      [] h = "OnHeadersReceived" ->
            {"OnResponseStarted", "OnBeforeRedirect", "OnErrorOccurred"}
      [] h = "OnResponseStarted" -> {"OnCompleted", "OnErrorOccurred"}
      [] OTHER -> {}

\* The hooks whose decision the request waits for.
BlockingHooks == {"OnBeforeRequest", "OnBeforeSendHeaders", "OnHeadersReceived"}

\* C9: the hooks of each leg of a request are invoked in the order
\* before-request, before-send-headers, send-headers, headers-received, then
\* response-started or before-redirect, then completed, with error-occurred as
\* the last hook after any of them; no later hook but error-occurred is invoked
\* before the decision of an earlier blocking hook has resolved to proceed; and
\* a leg, the one the issuer starts by following a redirect included, begins
\* with before-request.
C9_HooksInOrder ==
    \A id \in Ids :
       LET t == trace[id]
           hs == HookNames(t)
       IN /\ t # <<>> => IsEv(t[1], "hook", "OnBeforeRequest")
          /\ \A i \in 1..(Len(hs) - 1) : hs[i + 1] \in NextHooks(hs[i])
          /\ \A i, j \in Idx(t) :
                (i < j /\ t[i].k = "hook" /\ t[i].n \in BlockingHooks
                    /\ t[j].k = "hook" /\ t[j].n # "OnErrorOccurred") =>
                   \E m \in Idx(t) :
                      /\ i < m /\ m < j
                      /\ IsEv(t[m], "decide", t[i].n)
                      /\ t[m].code = OK

\* The leg that follows a redirect ran through every phase to completion.
C9_Witness ==
    \E id \in Ids :
       /\ stats[id].legs >= 2
       /\ HookNames(trace[id]) =
             <<"OnBeforeRequest", "OnBeforeSendHeaders", "OnSendHeaders",
               "OnHeadersReceived", "OnResponseStarted", "OnCompleted">>

----------------------------------------------------------------------------
\* C10: in the request the transport ends up sending in a leg, every header the
\* before-send-headers hook removed is absent and every header it set has the
\* hook's value, also when the issuer's FollowRedirect names the same headers.
C10_HookHeadersReachTransport ==
    \A id \in DOMAIN requests_ :
       (net[id].stage # "none"
           /\ \E i \in Idx(trace[id]) : IsTransportCall(trace[id][i])) =>
          /\ \A h \in stats[id].bsh.removed : net[id].request.headers[h] = Absent
          /\ \A h \in stats[id].bsh.set : net[id].request.headers[h] = "hk"

----------------------------------------------------------------------------
\* C11: once a before-redirect has left the request with the method GET, the
\* request has no body, and every request handed to the transport in a later leg
\* with the method GET has none.
C11_GetHasNoBody ==
    \A id \in Ids :
       LET t == trace[id] IN
       (stats[id].legs >= 2 \/ Has(t, "hook", "OnBeforeRedirect")) =>
          /\ (id \in DOMAIN requests_ /\ requests_[id].request_.method = "GET") =>
                ~requests_[id].request_.request_body
          /\ \A i \in Idx(t) :
                (stats[id].legs >= 2 /\ IsEv(t[i], "net", "CreateLoaderAndStart")
                    /\ t[i].val = "GET") => t[i].status = 0

\* A request that started as a POST with a body was handed to the transport
\* again, as a GET, in a leg after a redirect.
C11_Witness ==
    \E id \in DOMAIN requests_ : \E i \in Idx(trace[id]) :
       /\ stats[id].legs >= 2
       /\ IsEv(trace[id][i], "net", "CreateLoaderAndStart")
       /\ trace[id][i].val = "GET"
       /\ InitialRequest.request_body

----------------------------------------------------------------------------
\* C12: a continuation that runs after its request was removed has no effect:
\* the issuer receives nothing and no OnComplete is sent, no transport call is
\* made, no hook is invoked, and the factory's state does not change.
C12_LateContinuationHasNoEffect ==
    [][\A id \in Ids :
          (id \notin DOMAIN requests_ /\ pending'[id] # pending[id]
              /\ pending'[id] \subseteq pending[id]) =>
             /\ requests_' = requests_
             /\ network_request_id_to_web_request_id_' =
                   network_request_id_to_web_request_id_
             /\ g_request_id' = g_request_id
             /\ target_factory_' = target_factory_
             /\ proxy_receivers_' = proxy_receivers_
             /\ deleted' = deleted
             /\ net' = net
             /\ issuer' = issuer
             /\ trace' = trace
             /\ factory_out' = factory_out
             /\ \A j \in Ids : stats'[j].completes = stats[j].completes]_vars

\* The issuer went away while a hook's decision was pending, the request was
\* removed, and the continuation ran afterwards.
C12_Witness ==
    \E id \in Ids :
       /\ stats[id].late
       /\ stats[id].removed
       /\ pending[id] = {}
       /\ Has(trace[id], "recv", "disconnect")

----------------------------------------------------------------------------
\* C13: while the decision of a hook is pending, nothing is taken off the
\* transport's pipe and no call of the issuer (FollowRedirect, SetPriority,
\* PauseReadingBodyFromNet, ResumeReadingBodyFromNet) reaches the transport:
\* between a blocking hook and its decision a leg holds no transport message
\* received and no transport call.
C13_PausedBothWays ==
    \A id \in Ids : \A i, j \in Idx(trace[id]) :
       LET t == trace[id] IN
       (i < j /\ t[i].k = "hook" /\ t[i].n \in BlockingHooks
           /\ t[j].k \in {"net", "recv"} /\ t[j].n # "disconnect") =>
          \E m \in Idx(t) : i < m /\ m < j /\ IsEv(t[m], "decide", t[i].n)

----------------------------------------------------------------------------
\* C14 as stated: over the whole life of a request, request_completed_ goes from
\* false to true exactly once.
C14_CompletedRisesOnce ==
    \A id \in Ids :
       /\ stats[id].rises <= 1
       /\ stats[id].removed => stats[id].rises = 1

\* C14: request_completed_ goes from false to true at most once in a leg, when
\* the leg's redirect is forwarded, and RestartInternal resets it for the next
\* leg: every leg before the current one saw it rise once, and it is true
\* exactly when the current leg's before-redirect has run.
C14_CompletedRisesOncePerLeg ==
    \A id \in Ids :
       /\ stats[id].rises \in {stats[id].legs - 1, stats[id].legs}
       /\ id \in DOMAIN requests_ =>
             /\ requests_[id].request_completed_ <=>
                   stats[id].rises = stats[id].legs
             /\ requests_[id].request_completed_ <=>
                   Has(trace[id], "hook", "OnBeforeRedirect")

\* request_completed_ rose in two legs of one request.
C14_Witness ==
    \E id \in DOMAIN requests_ :
       stats[id].rises = 2 /\ requests_[id].request_completed_

----------------------------------------------------------------------------
\* C15: a request uses the trusted-header channel exactly when the factory's
\* header client is bound, the transport gave the request a nonzero id, and a
\* listener asks for extra headers.
C15_HeaderClientExactlyWhen ==
    \A id \in DOMAIN requests_ :
       stats[id].legs > 0 =>
          (requests_[id].current_request_uses_header_client_
             <=> /\ url_loader_header_client_receiver_
                 /\ requests_[id].network_service_request_id_ # 0
                 /\ stats[id].extra_headers)

----------------------------------------------------------------------------
\* C16: CreateLoaderAndStart looks first for an intercepted scheme and hands the
\* call to the registered handler; failing that, it hands a file url to the
\* archive loader.  In both cases, listeners or not, it adds no request to
\* requests_, no entry to the correlation table, takes no web_request_id,
\* invokes no hook and does not call target_factory_.
C16_InterceptedThenFile ==
    [][\A e \in factory_out' \ factory_out :
          (IsIntercepted(e.scheme) \/ SchemeIsFile(e.scheme)) =>
             /\ e.to = IF IsIntercepted(e.scheme) THEN "intercepted_handler"
                       ELSE "asar"
             /\ requests_' = requests_
             /\ network_request_id_to_web_request_id_' =
                   network_request_id_to_web_request_id_
             /\ g_request_id' = g_request_id
             /\ trace' = trace
             /\ pending' = pending
             /\ net' = net]_vars

\* An intercepted file url went to its handler while listeners were there,
\* beside a registered request.
C16_Witness ==
    /\ DOMAIN requests_ # {}
    /\ \E e \in factory_out :
          /\ e.scheme = "intercepted_file"
          /\ e.has_listener
          /\ e.to = "intercepted_handler"

----------------------------------------------------------------------------
\* C17: every live request with a nonzero transport id has an entry for that id
\* in the correlation table that maps to the request itself, so that an
\* OnLoaderCreated the transport sent for the request's loader has bound the
\* request's own header_client_receiver_.
C17_TableMapsEveryLiveRequest ==
    \A id \in DOMAIN requests_ :
       LET request_id == requests_[id].network_service_request_id_
       IN request_id # 0 =>
             /\ request_id \in DOMAIN network_request_id_to_web_request_id_
             /\ network_request_id_to_web_request_id_[request_id] = id
             /\ Has(trace[id], "header", "OnLoaderCreated") =>
                   requests_[id].header_client_receiver_.bound

----------------------------------------------------------------------------
\* C18: on a leg of a request that has the header client bound, a nonzero
\* transport id and a listener asking for extra headers, the response headers
\* the issuer gets with OnReceiveResponse are those of the header channel's
\* OnHeadersReceived event that came before, or the hook's override of them,
\* and not those of the transport's OnReceiveResponse.
C18_HeaderChannelHeadersForwarded ==
    \A id \in Ids : \A i \in Idx(trace[id]) :
       (/\ IsEv(trace[id][i], "issuer", "OnReceiveResponse")
        /\ url_loader_header_client_receiver_
        /\ stats[id].extra_headers
        /\ \E j \in 1..(i - 1) :
              IsEv(trace[id][j], "header", "OnLoaderCreated")
                 /\ trace[id][j].status # 0
        /\ \E j \in 1..(i - 1) : IsEv(trace[id][j], "reply", "OnHeadersReceived"))
          => trace[id][i].val \in {"cookie"} \cup (OverrideKinds \ {NullHeaders})

----------------------------------------------------------------------------
\* C19: a leg whose before-request and before-send-headers hooks have both
\* proceeded, so that OnSendHeaders was invoked in it, has had its transport
\* request issued: target_factory_->CreateLoaderAndStart was called in it, or
\* target_loader_->FollowRedirect on the loader of the leg before, whatever
\* factory pipes closed while a hook decision was pending.
C19_ProceedingRequestIsIssued ==
    \A id \in Ids :
       Has(trace[id], "hook", "OnSendHeaders") =>
          \/ Has(trace[id], "net", "CreateLoaderAndStart")
          \/ Has(trace[id], "net", "FollowRedirect")

----------------------------------------------------------------------------
\* C20: in sniffing mode, after the issuer's FollowRedirect for a redirect the
\* transport sent (target_loader_ bound), the transport gets FollowRedirect once
\* in the leg and only after the before-request hook proceeded without a
\* redirect and the before-send-headers hook proceeded; when both proceeded it
\* does get it, with the issuer's removed and modified headers joined with those
\* of the hook; when a hook cancels or before-request redirects it gets none.
\* trace[id] is the trace of the request's current leg.
C20_FollowRedirectAfterHooks ==
    \A id \in Ids :
       LET t == trace[id]
           f == stats[id].follow
       IN /\ \A i \in Idx(t) :
                IsEv(t[i], "net", "FollowRedirect") =>
                   /\ stats[id].after = "transport"
                   /\ \E j, k \in 1..(i - 1) :
                         /\ j < k
                         /\ IsEv(t[j], "decide", "OnBeforeRequest")
                         /\ t[j].code = OK /\ t[j].val = NoUrl
                         /\ IsEv(t[k], "decide", "OnBeforeSendHeaders")
                         /\ t[k].code = OK
                   /\ \A j \in Idx(t) : IsEv(t[j], "net", "FollowRedirect") => j = i
          /\ \A k \in Idx(t) :
                (/\ IsEv(t[k], "decide", "OnBeforeSendHeaders") /\ t[k].code = OK
                 /\ stats[id].after = "transport")
                   => /\ Len(t) >= k + 1
                      /\ IsEv(t[k + 1], "net", "FollowRedirect")
          /\ f.sent.set =>
                /\ f.asked.set
                /\ f.sent.removed_headers =
                      f.asked.removed_headers \cup stats[id].bsh.removed
                /\ f.sent.modified_headers =
                      [h \in HeaderNames |->
                         IF h \in stats[id].bsh.set THEN "hk"
                         ELSE f.asked.modified_headers[h]]

\* The transport got a FollowRedirect that joins a header the issuer removed
\* with a value the hook set, after a before-send-headers decision that was
\* pending.
C20_Witness ==
    \E id \in DOMAIN requests_ : \E i \in Idx(trace[id]) :
       /\ IsEv(trace[id][i], "net", "FollowRedirect")
       /\ stats[id].follow.sent.set
       /\ stats[id].follow.asked.removed_headers # {}
       /\ stats[id].bsh.set # {}
       /\ \E k \in 1..(i - 1) :
             /\ IsEv(trace[id][k], "decide", "OnBeforeSendHeaders")
             /\ trace[id][k].status = 1

----------------------------------------------------------------------------
\* C21: when the headers-received hook answers a response with override headers
\* that are a redirect with a Location, the loader's pipes are closed, the
\* before-redirect hook is invoked and the issuer gets OnReceiveRedirect with
\* the override's status code and the Location; the leg has no
\* OnResponseStarted, no OnReceiveResponse to the issuer and no further
\* transport event.  The leg that the issuer's FollowRedirect starts after it
\* calls no FollowRedirect on the transport and, when its hooks proceed with
\* target_factory_ bound, calls CreateLoaderAndStart with the new url.
C21_OverrideRedirect ==
    \A id \in Ids :
       LET t == trace[id] IN
       /\ \A i \in Idx(t) :
             (/\ IsEv(t[i], "decide", "OnHeadersReceived")
              /\ t[i].code = OK /\ t[i].val = "redirect"
              /\ \E m \in 1..i : IsEv(t[m], "recv", "OnReceiveResponse"))
                => /\ Len(t) >= i + 3
                   /\ IsEv(t[i + 1], "net", "Close") /\ t[i + 1].code = "bound"
                   /\ IsEv(t[i + 2], "hook", "OnBeforeRedirect")
                   /\ IsEv(t[i + 3], "issuer", "OnReceiveRedirect")
                   /\ t[i + 3].val = "locU"
                   /\ t[i + 3].status = ResponseCode("redirect")
                   /\ \A j \in Idx(t) :
                         j > i =>
                            /\ ~IsEv(t[j], "hook", "OnResponseStarted")
                            /\ ~IsEv(t[j], "issuer", "OnReceiveResponse")
                            /\ ~(t[j].k = "recv" /\ t[j].n # "disconnect")
       /\ stats[id].after = "override" =>
             /\ ~Has(t, "net", "FollowRedirect")
             /\ \A j \in Idx(t) :
                   (IsEv(t[j], "hook", "OnSendHeaders") /\ target_factory_) =>
                      /\ Len(t) > j
                      /\ IsEv(t[j + 1], "net", "CreateLoaderAndStart")
             /\ (id \in DOMAIN requests_ /\ net[id].stage # "none") =>
                   net[id].request.url = "locU"

\* After an override redirect that a pending headers-received hook made, the
\* issuer followed and the request went to the transport again.
C21_Witness ==
    \E id \in DOMAIN requests_ :
       /\ stats[id].after = "override"
       /\ Has(trace[id], "net", "CreateLoaderAndStart")
       /\ net[id].request.url = "locU"

----------------------------------------------------------------------------
\* C22: a request whose terminal event happened (OnComplete was sent to the
\* issuer, OnCompleted or OnErrorOccurred was notified, or it was removed) is not
\* in requests_; and for a request that was removed no step adds an event to
\* its trace (no message to the issuer, no transport call, no hook), sends an
\* OnComplete, gives it a loader or registers it again.
C22_NothingAfterTerminal ==
    /\ [](\A id \in Ids :
            (\/ stats[id].removed
             \/ stats[id].completes > 0
             \/ Has(trace[id], "hook", "OnCompleted")
             \/ Has(trace[id], "hook", "OnErrorOccurred"))
               => id \notin DOMAIN requests_ /\ net[id] = NoLoader)
    /\ [][\A id \in Ids :
             stats[id].removed =>
                /\ id \notin DOMAIN requests_'
                /\ trace'[id] = trace[id] \/ trace'[id] = <<>>
                /\ stats'[id].completes = stats[id].completes
                /\ net'[id] = net[id]
                /\ issuer'[id] = issuer[id]]_vars

\* A request completed with success, told the issuer and the listeners, and
\* was removed.
C22_Witness ==
    \E id \in Ids :
       /\ stats[id].removed
       /\ Has(trace[id], "hook", "OnCompleted")
       /\ Has(trace[id], "issuer", "OnComplete")
       /\ ~stats[id].late

----------------------------------------------------------------------------
\* C23: proxied_client_binding_ of a live request is paused only while it is
\* bound and a hook's continuation is held for the request: when it is bound
\* and no continuation is pending, it takes the transport's messages.
C23_PausedOnlyWhilePending ==
    \A id \in DOMAIN requests_ :
       requests_[id].proxied_client_binding_.paused =>
          /\ requests_[id].proxied_client_binding_.bound
          /\ pending[id] # {}

\* The continuation of a headers-received hook let a transport redirect
\* through, and the binding takes messages again.
C23_Witness ==
    \E id \in DOMAIN requests_ :
       /\ requests_[id].proxied_client_binding_.bound
       /\ ~requests_[id].proxied_client_binding_.paused
       /\ pending[id] = {}
       /\ Has(trace[id], "recv", "OnReceiveRedirect")
       /\ \E i \in Idx(trace[id]) :
             /\ IsEv(trace[id][i], "decide", "OnHeadersReceived")
             /\ trace[id][i].code = OK
             /\ trace[id][i].status = 1
       /\ Has(trace[id], "issuer", "OnReceiveRedirect")

----------------------------------------------------------------------------
\* C24: a request has at most one transport request that was made for it and
\* not closed, and it has one exactly when target_loader_ is bound, also when
\* the issuer calls FollowRedirect out of turn and several continuations run;
\* so CreateLoaderAndStart is called only with target_loader_ unbound: for the
\* first time, or after HandleBeforeRequestRedirect or an override redirect
\* closed the loader.
C24_OneTransportRequest ==
    \A id \in Ids :
       /\ stats[id].outstanding \in {0, 1}
       /\ id \in DOMAIN requests_ =>
             (stats[id].outstanding = 1 <=> requests_[id].target_loader_)
       /\ id \in DOMAIN requests_ =>
             (requests_[id].target_loader_ <=> net[id].stage # "none")

\* The issuer called FollowRedirect while the first leg's before-request
\* decision was pending; both continuations have run and the request has its
\* one loader.
C24_Witness ==
    \E id \in DOMAIN requests_ :
       /\ stats[id].legs >= 2
       /\ stats[id].after = "transport"
       /\ stats[id].outstanding = 1
       /\ pending[id] = {}
       /\ Cardinality({i \in Idx(trace[id]) :
                          IsEv(trace[id][i], "hook", "OnSendHeaders")}) >= 2
       /\ ~Has(trace[id], "recv", "OnReceiveRedirect")

----------------------------------------------------------------------------
\* C25: every entry of network_request_id_to_web_request_id_ names a request
\* that is in requests_ and that has the entry's transport id, so the DCHECK of
\* OnLoaderCreated holds; also when CreateLoaderAndStart comes with an id that
\* is in the table and when a request with a shared id or with id 0 is removed.
C25_TableNamesLiveRequests ==
    \A request_id \in DOMAIN network_request_id_to_web_request_id_ :
       LET id == network_request_id_to_web_request_id_[request_id]
       IN /\ request_id # 0
          /\ id \in DOMAIN requests_
          /\ requests_[id].network_service_request_id_ = request_id

\* Two requests had the same nonzero transport id, and one of them was removed:
\* the entry went with it and the other request is still registered.
C25_Witness ==
    \E id \in Ids :
       /\ stats[id].removed
       /\ id \notin DOMAIN requests_
       /\ \E other \in DOMAIN requests_ :
             /\ requests_[other].network_service_request_id_ # 0
             /\ requests_[other].network_service_request_id_
                   \notin DOMAIN network_request_id_to_web_request_id_

----------------------------------------------------------------------------
\* C26: while the factory exists, after each of its handlers has returned, the
\* transport-facing channel target_factory_ is unbound exactly when the set of
\* issuer-facing receivers is empty; so no CreateLoaderAndStart and no Clone,
\* which come through a receiver, finds target_factory_ unbound, and nothing
\* is handed to a closed channel.
C26_TargetUnboundIffNoReceivers ==
    deleted = 0 => (~target_factory_ <=> proxy_receivers_ = 0)

\* The factory has lost both sides and lives on for a request still registered.
C26_Witness ==
    /\ deleted = 0
    /\ ~target_factory_
    /\ proxy_receivers_ = 0
    /\ DOMAIN requests_ # {}
    /\ \E e \in factory_out : e.to = "target_factory"

====
